---- MODULE Spec2Model ----
(***************************************************************************)
(* svelte-image preprocessor (src/main.js): the text patcher `insert`,     *)
(* the variant generator `createSizes` / `resize`, the srcset formatter,   *)
(* path resolution and the rewrite orchestrator `replaceImages`.           *)
(*                                                                         *)
(* Texts are sequences of one-character strings; JavaScript positions are  *)
(* 0-based, so position p of a text is element p + 1 of its sequence.      *)
(***************************************************************************)
EXTENDS Integers, Sequences, FiniteSets, TLC

VARIABLES
  patch,     \* text patcher run: [orig, content, offset, edits]
  cs,        \* one createSizes call and the srcset formatted from its result
  options,   \* the module-level `let options`
  preps,     \* per preprocessor returned by getPreprocessor: the options then in force
  disk,      \* the file system: [files, outDir, size, meta]
  call       \* the markup call in progress: replaceImages and its reduce

vars == <<patch, cs, options, preps, disk, call>>
notPatch == <<cs, options, preps, disk, call>>     \* what a patcher run leaves alone
notSizes == <<patch, options, preps, disk, call>>  \* what a createSizes call leaves alone
notRewrite == <<patch, cs>>                        \* what the rewrite leaves alone

\* ------------------------------------------------------------------ bounds
MaxLen == 3      \* longest original text of the patcher runs
MaxEdits == 2    \* most edits threaded through one patcher run
MaxVal == 2      \* longest replacement value of a patcher run
MaxSizes == 3    \* longest configured options.sizes list
MaxPreps == 2    \* most preprocessors constructed by getPreprocessor

\* ----------------------------------------------------------------- helpers
Min(a, b) == IF a < b THEN a ELSE b
Max(a, b) == IF a > b THEN a ELSE b

\* All sequences over S of length 0..n
SeqsUpTo(S, n) == UNION {[1..k -> S] : k \in 0..n}

\* String.prototype.substr(from, length): a negative from counts from the
\* end, a from beyond the end gives "", a negative length gives "".
substr(s, from, length) ==
  LET n == Len(s)
      b == IF from < 0 THEN Max(n + from, 0) ELSE Min(from, n)
      l == Min(Max(length, 0), n - b)
  IN  SubSeq(s, b + 1, b + l)

\* String.prototype.substr(from): to the end of the string
substrFrom(s, from) == substr(s, from, Len(s))

\* --------------------------------------------------------- the text patcher
\* A seeded slip: the tail is cut at `end` without the running offset.
insert_NoOffsetOnTail(content, value, start, end, offset) ==
  [content |-> substr(content, 0, start + offset) \o value \o substrFrom(content, end),
   offset  |-> offset + Len(value) - (end - start)]

\* function insert(content, value, start, end, offset)
insert(content, value, start, end, offset) ==
  [content |-> substr(content, 0, start + offset) \o value
                 \o substrFrom(content, end + offset),
   offset  |-> offset + Len(value) - (end - start)]

PatchTexts == SeqsUpTo({"a", "b"}, MaxLen)
PatchValues == SeqsUpTo({"x"}, MaxVal)

LastEnd(edits) == IF edits = <<>> THEN 0 ELSE edits[Len(edits)].end

PatchInit ==
  /\ \E t \in PatchTexts :
       patch = [orig |-> t, content |-> t, offset |-> 0, edits |-> <<>>]
  /\ cs = <<>>
  /\ options = <<>> /\ preps = <<>> /\ disk = <<>> /\ call = <<>>

\* One more edit of a sorted, non-overlapping, in-range sequence is applied,
\* the offset returned by the previous call being threaded into this one.
ApplyEdit ==
  /\ Len(patch.edits) < MaxEdits
  /\ UNCHANGED notPatch
  /\ \E start \in LastEnd(patch.edits)..Len(patch.orig) :
       \E end \in start..Len(patch.orig) :
         \E value \in PatchValues :
           LET r == insert(patch.content, value, start, end, patch.offset)
           IN  patch' = [orig    |-> patch.orig,
                         content |-> r.content,
                         offset  |-> r.offset,
                         edits   |-> Append(patch.edits,
                                      [start |-> start, end |-> end, value |-> value])]

PatchNext == ApplyEdit

SpecPatch == PatchInit /\ [][PatchNext]_vars

\* --------------------------------------------------- strings and paths
toLowerCaseChar(c) ==
  CASE c = "P" -> "p" [] c = "N" -> "n" [] c = "G" -> "g" [] c = "J" -> "j"
    [] c = "E" -> "e" [] c = "H" -> "h" [] c = "T" -> "t" [] c = "S" -> "s"
    [] OTHER -> c

\* String.prototype.toLowerCase
toLowerCase(str) == [i \in 1..Len(str) |-> toLowerCaseChar(str[i])]

\* String.prototype.includes / startsWith
startsWith(str, prefix) ==
  Len(prefix) <= Len(str) /\ SubSeq(str, 1, Len(prefix)) = prefix
includes(str, needle) ==
  \E i \in 0..(Len(str) - Len(needle)) :
    SubSeq(str, i + 1, i + Len(needle)) = needle

\* The part of str after the last occurrence of sep (all of it without one):
\* str.split(sep).pop()
afterLast(str, sep) ==
  LET at == {i \in 1..Len(str) : str[i] = sep}
  IN  IF at = {} THEN str
      ELSE SubSeq(str, (CHOOSE i \in at : \A j \in at : j <= i) + 1, Len(str))

\* const IS_EXTERNAL = /^(https?:)?\/\//i
IS_EXTERNAL(str) ==
  LET l == toLowerCase(str)
  IN  \/ startsWith(l, <<"/", "/">>)
      \/ startsWith(l, <<"h", "t", "t", "p", ":", "/", "/">>)
      \/ startsWith(l, <<"h", "t", "t", "p", "s", ":", "/", "/">>)

\* fileHasCorrectExtension(filename, extensions)
fileHasCorrectExtension(filename, extensions) ==
  IF Len(extensions) = 0 THEN TRUE
  ELSE \E i \in 1..Len(extensions) :
         toLowerCase(extensions[i]) = toLowerCase(afterLast(filename, "."))

\* path.basename(p)
basename(p) == afterLast(p, "/")

\* path.normalize on a relative part: runs of "/" collapse
RECURSIVE normalize(_)
normalize(p) ==
  IF Len(p) < 2 THEN p
  ELSE IF p[1] = "/" /\ p[2] = "/" THEN normalize(Tail(p))
       ELSE <<p[1]>> \o normalize(Tail(p))

\* path.resolve(dir, rel): an absolute rel ignores dir
resolve(dir, rel) ==
  IF rel # <<>> /\ rel[1] = "/"
  THEN [dir |-> "/", rel |-> normalize(rel)]
  ELSE [dir |-> dir, rel |-> normalize(rel)]


\* path.extname(p): from the last "." of the base name on ("" without one,
\* or when the name starts with its only ".")
extname(p) ==
  LET b == basename(p)
      at == {i \in 2..Len(b) : b[i] = "."}
  IN  IF at = {} THEN <<>>
      ELSE SubSeq(b, CHOOSE i \in at : \A j \in at : j <= i, Len(b))

\* getBasename(p): path.basename(p, path.extname(p))
getBasename(p) ==
  LET b == basename(p)
      e == extname(p)
  IN  IF e # <<>> /\ Len(e) < Len(b) THEN SubSeq(b, 1, Len(b) - Len(e)) ELSE b

\* Directories: options.sourceDir, the directory of the component being
\* rewritten (inside the source tree), a directory outside the source tree,
\* and path.resolve(options.publicDir, options.outputDir)
SourceDir == "src"
ParentDir == "src/routes"
OutsideDir == "lib"
OutDir == "static/g"

\* options.outputDir, as the prefix of an output URL
OutputDir == <<"g", "/">>

\* ---------------------------------------------------------------- options
\* The text of a short ASCII word, one character per element
Chars_jpg == <<"j", "p", "g">>
Chars_jpeg == <<"j", "p", "e", "g">>
Chars_png == <<"p", "n", "g">>

\* let options = {...}: the fields the rewrite reads
DefaultOptions ==
  [optimizeAll         |-> TRUE,
   imgTagExtensions    |-> <<Chars_jpg, Chars_jpeg, Chars_png>>,
   componentExtensions |-> <<>>,
   inlineBelow         |-> 10000,
   tagName             |-> "Image",
   sizes               |-> <<400, 800, 1200>>,
   breakpoints         |-> <<375, 768, 1024>>,
   placeholder         |-> "trace",
   webp                |-> TRUE,
   optimizeRemote      |-> TRUE]

\* The option objects the callers of getPreprocessor pass (each partial)
OptsChoices ==
  << [tagName |-> "Image"],
     [optimizeAll |-> FALSE],
     [optimizeRemote |-> FALSE, placeholder |-> "blur", webp |-> FALSE,
      inlineBelow |-> 0] >>

\* { ...options, ...opts }
spread(old, opts) ==
  [k \in DOMAIN old |-> IF k \in DOMAIN opts THEN opts[k] ELSE old[k]]

\* -------------------------------------------------------------- documents
\* What svelte.parse gives for each source text: the img / Image nodes in the
\* order svelte.walk enters them, the extent [start, end) of each one's
\* opening tag and of its src value (positions in the source text), and
\* whether the text parses at all.
\* <img src="a.png">
Document1 ==
  [content |-> <<
      "<", "i", "m", "g", " ", "s", "r", "c", "=", "\"", "a", ".", "p", "n",
      "g", "\"", ">" >>,
   parses |-> TRUE,
   nodes |-> <<
       [name |-> "img", start |-> 0, end |-> 17,
        src |-> [type |-> "Text", start |-> 10, end |-> 15]] >>]

\* <img src={x}><img src="a.png">
Document2 ==
  [content |-> <<
      "<", "i", "m", "g", " ", "s", "r", "c", "=", "{", "x", "}", ">", "<",
      "i", "m", "g", " ", "s", "r", "c", "=", "\"", "a", ".", "p", "n", "g",
      "\"", ">" >>,
   parses |-> TRUE,
   nodes |-> <<
       [name |-> "img", start |-> 0, end |-> 13,
        src |-> [type |-> "MustacheTag", start |-> 9, end |-> 12]],
       [name |-> "img", start |-> 13, end |-> 30,
        src |-> [type |-> "Text", start |-> 23, end |-> 28]] >>]

\* <img alt=""><img src="a.gif"><img src="a.png">
Document3 ==
  [content |-> <<
      "<", "i", "m", "g", " ", "a", "l", "t", "=", "\"", "\"", ">", "<", "i",
      "m", "g", " ", "s", "r", "c", "=", "\"", "a", ".", "g", "i", "f", "\"",
      ">", "<", "i", "m", "g", " ", "s", "r", "c", "=", "\"", "a", ".", "p",
      "n", "g", "\"", ">" >>,
   parses |-> TRUE,
   nodes |-> <<
       [name |-> "img", start |-> 0, end |-> 12,
        src |-> [type |-> "none", start |-> 0, end |-> 0]],
       [name |-> "img", start |-> 12, end |-> 29,
        src |-> [type |-> "Text", start |-> 22, end |-> 27]],
       [name |-> "img", start |-> 29, end |-> 46,
        src |-> [type |-> "Text", start |-> 39, end |-> 44]] >>]

\* <img src="//h/c.png"><img src="a.png">
Document4 ==
  [content |-> <<
      "<", "i", "m", "g", " ", "s", "r", "c", "=", "\"", "/", "/", "h", "/",
      "c", ".", "p", "n", "g", "\"", ">", "<", "i", "m", "g", " ", "s", "r",
      "c", "=", "\"", "a", ".", "p", "n", "g", "\"", ">" >>,
   parses |-> TRUE,
   nodes |-> <<
       [name |-> "img", start |-> 0, end |-> 21,
        src |-> [type |-> "Text", start |-> 10, end |-> 19]],
       [name |-> "img", start |-> 21, end |-> 38,
        src |-> [type |-> "Text", start |-> 31, end |-> 36]] >>]

\* <Image src="b.jpg" alt=""/><img src="a.png">
Document5 ==
  [content |-> <<
      "<", "I", "m", "a", "g", "e", " ", "s", "r", "c", "=", "\"", "b", ".",
      "j", "p", "g", "\"", " ", "a", "l", "t", "=", "\"", "\"", "/", ">",
      "<", "i", "m", "g", " ", "s", "r", "c", "=", "\"", "a", ".", "p", "n",
      "g", "\"", ">" >>,
   parses |-> TRUE,
   nodes |-> <<
       [name |-> "Image", start |-> 0, end |-> 27,
        src |-> [type |-> "Text", start |-> 12, end |-> 17]],
       [name |-> "img", start |-> 27, end |-> 44,
        src |-> [type |-> "Text", start |-> 37, end |-> 42]] >>]

\* <Image src="b.jpg"/><img src="a.png">
Document6 ==
  [content |-> <<
      "<", "I", "m", "a", "g", "e", " ", "s", "r", "c", "=", "\"", "b", ".",
      "j", "p", "g", "\"", "/", ">", "<", "i", "m", "g", " ", "s", "r", "c",
      "=", "\"", "a", ".", "p", "n", "g", "\"", ">" >>,
   parses |-> TRUE,
   nodes |-> <<
       [name |-> "Image", start |-> 0, end |-> 20,
        src |-> [type |-> "Text", start |-> 12, end |-> 17]],
       [name |-> "img", start |-> 20, end |-> 37,
        src |-> [type |-> "Text", start |-> 30, end |-> 35]] >>]

\* <Image src=b.jpg><img src={x}/></Image>
Document7 ==
  [content |-> <<
      "<", "I", "m", "a", "g", "e", " ", "s", "r", "c", "=", "b", ".", "j",
      "p", "g", ">", "<", "i", "m", "g", " ", "s", "r", "c", "=", "{", "x",
      "}", "/", ">", "<", "/", "I", "m", "a", "g", "e", ">" >>,
   parses |-> TRUE,
   nodes |-> <<
       [name |-> "Image", start |-> 0, end |-> 17,
        src |-> [type |-> "Text", start |-> 11, end |-> 16]],
       [name |-> "img", start |-> 17, end |-> 31,
        src |-> [type |-> "MustacheTag", start |-> 26, end |-> 29]] >>]

\* <img src="a.png"><p>{#if}</p>
Document8 ==
  [content |-> <<
      "<", "i", "m", "g", " ", "s", "r", "c", "=", "\"", "a", ".", "p", "n",
      "g", "\"", ">", "<", "p", ">", "{", "#", "i", "f", "}", "<", "/", "p",
      ">" >>,
   parses |-> FALSE,
   nodes |-> <<
       [name |-> "img", start |-> 0, end |-> 17,
        src |-> [type |-> "Text", start |-> 10, end |-> 15]] >>]

\* <p>a.png</p>
Document9 ==
  [content |-> <<
      "<", "p", ">", "a", ".", "p", "n", "g", "<", "/", "p", ">" >>,
   parses |-> TRUE,
   nodes |-> <<>>]

Documents == <<Document1, Document2, Document3, Document4, Document5, Document6, Document7, Document8, Document9>>

\* ------------------------------------------------- the variant generator
Infinity == 1000000    \* Math.min() of no arguments

\* Math.min(...list)
RECURSIVE MathMin(_)
MathMin(list) ==
  IF list = <<>> THEN Infinity
  ELSE Min(list[1], MathMin(SubSeq(list, 2, Len(list))))

\* getFilenameWithSize(p, size): `${getBasename(p)}-${size}${path.extname(p)}`
getFilenameWithSize(p, size) ==
  getBasename(p) \o <<"-", ToString(size)>> \o extname(p)

\* getWebpFilenameWithSize(p, size): `${getBasename(p)}-${size}.webp`
getWebpFilenameWithSize(p, size) ==
  getBasename(p) \o <<"-", ToString(size)>> \o <<".", "w", "e", "b", "p">>

\* getPathsObject(nodeSrc), nodeSrc a resolved path [dir, rel]
getPathsObject(nodeSrc) ==
  [inPath  |-> nodeSrc,
   outDir  |-> OutDir,
   outPath |-> [dir |-> OutDir, rel |-> basename(nodeSrc.rel)],
   outUrl  |-> OutputDir \o basename(nodeSrc.rel)]

\* paths.getResizePaths(size)
getResizePaths(paths, size) ==
  [outPath     |-> [dir |-> paths.outDir, rel |-> getFilenameWithSize(paths.inPath.rel, size)],
   outUrl      |-> OutputDir \o getFilenameWithSize(paths.inPath.rel, size),
   outPathWebp |-> [dir |-> paths.outDir, rel |-> getWebpFilenameWithSize(paths.inPath.rel, size)]]

\* fs.existsSync(path) on the files of a disk
existsSync(files, path) == \E f \in files : f.path = path

\* A file written (created or overwritten) with content of the given kind
writeFile(files, path, kind) ==
  {f \in files : f.path # path} \cup {[path |-> path, kind |-> kind]}

\* createSizes: the sizes whose resize tasks are started
candidateSizes(opts, meta) ==
  LET smallestSize == MathMin(opts.sizes)
  IN  IF smallestSize > meta.width THEN <<meta.width>> ELSE opts.sizes

NullVariant == [isNull |-> TRUE]

\* A seeded slip: a size equal to the natural width is dropped too.
resizeReturnsNull_DropsEqual(size, meta) == meta.width <= size

\* resize: `if (meta.width < size) return null`
resizeReturnsNull(size, meta) == meta.width < size

\* resize: the files it writes, given the files on disk
resizeWrites(size, paths, meta, opts, files) ==
  IF resizeReturnsNull(size, meta) THEN {}
  ELSE LET rp == getResizePaths(paths, size)
       IN  (IF opts.webp /\ ~existsSync(files, rp.outPathWebp)
            THEN {[path |-> rp.outPathWebp, kind |-> "webp"]} ELSE {})
             \cup (IF ~existsSync(files, rp.outPath)
                   THEN {[path |-> rp.outPath, kind |-> "resized"]} ELSE {})

\* resize: its value; the file information of a freshly written file (its
\* width is the target size, its height scaled) overrides the metadata of
\* the source
resize(size, paths, meta, files) ==
  IF resizeReturnsNull(size, meta) THEN NullVariant
  ELSE LET rp == getResizePaths(paths, size)
           fresh == ~existsSync(files, rp.outPath)
       IN  [isNull   |-> FALSE,
            width    |-> IF fresh THEN size ELSE meta.width,
            height   |-> IF fresh THEN (size * meta.height) \div meta.width
                         ELSE meta.height,
            size     |-> size,
            filename |-> rp.outUrl]

\* Array.prototype.filter(Boolean)
filterBoolean(list) == SelectSeq(list, LAMBDA v : ~v.isNull)

\* createSizes as one step: Promise.all keeps the tasks' order
createSizes(opts, paths, meta, files) ==
  LET sizes == candidateSizes(opts, meta)
  IN  filterBoolean([i \in 1..Len(sizes) |-> resize(sizes[i], paths, meta, files)])

\* createSizes: the files its resize tasks write
RECURSIVE createSizesWrites(_, _, _, _, _)
createSizesWrites(sizes, paths, meta, opts, files) ==
  IF sizes = <<>> THEN {}
  ELSE LET w == resizeWrites(sizes[1], paths, meta, opts, files)
       IN  w \cup createSizesWrites(Tail(sizes), paths, meta, opts, files \cup w)

\* ------------------------------------------------------ the srcset formatter
\* options.breakpoints[i], i 0-based: undefined beyond the list
breakpointAt(opts, i) ==
  IF i + 1 \in DOMAIN opts.breakpoints THEN opts.breakpoints[i + 1] ELSE -1

\* srcsetLine(options)(s, i): "<url> <breakpoints[i]>w", i the index map passes
srcsetLine(opts, s, i) == [url |-> s.filename, breakpoint |-> breakpointAt(opts, i)]

\* getSrcset: sizes.filter((f) => f).map(lineFn(options))
getSrcsetLines(opts, sizes) ==
  LET s == filterBoolean(sizes)
  IN  [j \in 1..Len(s) |-> srcsetLine(opts, s[j], j - 1)]

\* --------------------------------------------------- createSizes, stepwise
SizeValues == {400, 800, 1200}
Widths == {300, 400, 1000, 1200, 1500}

\* options.breakpoints parallel to a sizes list of n entries, one distinct
\* breakpoint per index (the defaults 375, 768, 1024 first)
BreakpointsFor(n) ==
  [k \in 1..n |-> IF k = 1 THEN 375 ELSE IF k = 2 THEN 768 ELSE 1024 + 416 * (k - 3)]

FujiPaths ==
  getPathsObject(resolve(SourceDir, <<"f", "u", "j", "i", ".", "j", "p", "g">>))

SizesInit ==
  /\ patch = <<>>
  /\ options = <<>> /\ preps = <<>> /\ disk = <<>> /\ call = <<>>
  /\ \E sizes \in SeqsUpTo(SizeValues, MaxSizes) :
    \E w \in Widths :
      \E webp \in BOOLEAN :
        \E onDisk \in {{}, {[path |-> getResizePaths(FujiPaths, 400).outPath,
                           kind |-> "resized"]}} :
          cs = [opts    |-> [sizes |-> sizes, breakpoints |-> BreakpointsFor(Len(sizes)),
                             webp |-> webp],
                meta    |-> [width |-> w, height |-> 500],
                phase   |-> "called",
                cand    |-> <<>>,
                settled |-> <<>>,
                pending |-> {},
                order   |-> <<>>,
                disk    |-> onDisk,
                result  |-> <<>>,
                srcset  |-> <<>>]

\* createSizes up to Promise.all: the metadata is read, one resize task is
\* started per candidate; a task that returns null settles before its first
\* await, the others wait for the backend.
CreateSizesCall ==
  /\ UNCHANGED notSizes
  /\ cs.phase = "called"
  /\ LET cand == candidateSizes(cs.opts, cs.meta)
     IN  cs' = [cs EXCEPT
                  !.phase = "pending",
                  !.cand = cand,
                  !.settled = [i \in 1..Len(cand) |-> NullVariant],
                  !.pending = {i \in 1..Len(cand) : ~resizeReturnsNull(cand[i], cs.meta)}]

\* One resize task finishes, in any order; its value goes to its own slot.
ResizeDone ==
  /\ UNCHANGED notSizes
  /\ cs.phase = "pending"
  /\ \E i \in cs.pending :
       cs' = [cs EXCEPT
                !.settled[i] = resize(cs.cand[i], FujiPaths, cs.meta, cs.disk),
                !.pending = @ \ {i},
                !.order = Append(@, i),
                !.disk = @ \cup resizeWrites(cs.cand[i], FujiPaths, cs.meta, cs.opts, cs.disk)]

\* The backend throws in one resize task: Promise.all rejects.
ResizeFails ==
  /\ UNCHANGED notSizes
  /\ cs.phase = "pending"
  /\ cs.pending # {}
  /\ cs' = [cs EXCEPT !.phase = "rejected"]

\* Promise.all resolves: createSizes returns the non-null values in order.
CreateSizesReturn ==
  /\ UNCHANGED notSizes
  /\ cs.phase = "pending"
  /\ cs.pending = {}
  /\ cs' = [cs EXCEPT !.phase = "returned", !.result = filterBoolean(cs.settled)]

\* getSrcset(sizes) on the returned list
FormatSrcset ==
  /\ UNCHANGED notSizes
  /\ cs.phase = "returned"
  /\ cs' = [cs EXCEPT !.phase = "formatted", !.srcset = getSrcsetLines(cs.opts, cs.result)]

SizesNext ==
  \/ CreateSizesCall
  \/ ResizeDone
  \/ ResizeFails
  \/ CreateSizesReturn
  \/ FormatSrcset

SpecSizes == SizesInit /\ [][SizesNext]_vars

\* ------------------------------------------------------- path resolution
NoPath == [dir |-> "", rel |-> <<>>]

\* crypto.createHash("sha1").update(url).digest("hex"): a name without "/"
\* that the url determines
sha1(url) == <<"sha1(">> \o SelectSeq(url, LAMBDA c : c # "/") \o <<")">>

\* What the remote end does when asked: an image is served, something else
\* is served, or the request fails
DownloadOutcomes == {"image", "notImage", "failed"}

\* downloadImage(url, folder): [filename (<<>> for null or a rejection that
\* the caller's catch turns into null), files (the disk afterwards)]
downloadImage(url, folder, files, outcome) ==
  LET hash == sha1(url)
      existing == {f \in files : f.path.dir = folder /\ startsWith(f.path.rel, hash)}
      filename == hash \o <<".", "p", "n", "g">>
  IN  IF existing # {}
      THEN [filename |-> (CHOOSE f \in existing : TRUE).path.rel, files |-> files]
      ELSE IF outcome # "image"
      THEN [filename |-> <<>>, files |-> files]
      ELSE [filename |-> filename,
            files |-> writeFile(files, resolve(folder, filename), "download")]

\* value.data of the first chunk of the node's src attribute
srcData(content, node) ==
  IF node.src.type = "Text"
  THEN SubSeq(content, node.src.start + 1, node.src.end)
  ELSE <<>>

\* willNotProcess(reason); with it the disk after the resolution and the file
\* name downloadImage gave (<<>> without one)
willNotProcess(reason, files, downloaded) ==
  [willNotProcess |-> TRUE, reason |-> reason, nodeSrc |-> NoPath, files |-> files,
   downloaded |-> downloaded]

\* getProcessingPathsForNode up to its call of willProcess: the decision,
\* the path it resolved and the disk after a download
getProcessingPathsForNode(node, content, parentDir, opts, files, outcome) ==
  LET data == srcData(content, node)
      external == IS_EXTERNAL(data)
      dl == downloadImage(data, SourceDir, files, outcome)
      after == IF external /\ opts.optimizeRemote THEN dl.files ELSE files
      \* the download's file name when external; it is assigned and not read
      \* again (the local value with its leading "/" cut is not read either)
      removedDomainSlash == IF external THEN dl.filename ELSE <<>>
      relativeToParent == resolve(parentDir, data)
      relativeToSource == resolve(SourceDir, data)
  IN  IF node.src.type \in {"MustacheTag", "AttributeShorthand"}
      THEN willNotProcess("dynamic", files, <<>>)
      ELSE IF data = <<>>
      THEN willNotProcess("blank", files, <<>>)
      ELSE IF node.name = "img" /\ ~fileHasCorrectExtension(data, opts.imgTagExtensions)
      THEN willNotProcess("extension", files, <<>>)
      ELSE IF node.name = opts.tagName
              /\ ~fileHasCorrectExtension(data, opts.componentExtensions)
      THEN willNotProcess("extension", files, <<>>)
      ELSE IF external /\ ~opts.optimizeRemote
      THEN willNotProcess("external", files, <<>>)
      ELSE IF external /\ dl.filename = <<>>
      THEN willNotProcess("not an image", after, <<>>)
      ELSE IF existsSync(after, relativeToParent)
      THEN [willNotProcess |-> FALSE, reason |-> "", nodeSrc |-> relativeToParent,
            files |-> after, downloaded |-> removedDomainSlash]
      ELSE IF existsSync(after, relativeToSource)
      THEN [willNotProcess |-> FALSE, reason |-> "", nodeSrc |-> relativeToSource,
            files |-> after, downloaded |-> removedDomainSlash]
      ELSE willNotProcess("does not exist", after, removedDomainSlash)

\* willProcess(nodeSrc): fs.writeFileSync of a copy into the output
\* directory, which throws when that directory does not exist
willProcessThrows(d) == ~d.outDir
willProcess(nodeSrc, files) ==
  writeFile(files, getPathsObject(nodeSrc).outPath, "copy")

\* ------------------------------------------------------------ formatting
InlineDataUri == <<"data:image/png;base64,", "(whole image)">>
BlurPlaceholder == <<"data:image/png;base64,", "(64px)">>
TracePlaceholder == <<"data:image/svg+xml;base64,", "(trace)">>

\* String.prototype.replace(needle, with): the first occurrence only
replace(str, needle, with) ==
  LET at == {i \in 0..(Len(str) - Len(needle)) :
               SubSeq(str, i + 1, i + Len(needle)) = needle}
  IN  IF at = {} THEN str
      ELSE LET i == CHOOSE i \in at : \A j \in at : i <= j
           IN  SubSeq(str, 1, i) \o with \o SubSeq(str, i + Len(needle) + 1, Len(str))

\* `${s.filename} ${options.breakpoints[i]}w` as text
lineText(line) ==
  line.url \o <<" ", IF line.breakpoint < 0 THEN "undefined" ELSE ToString(line.breakpoint),
                "w">>

\* srcsetLineWebp(options)(s, i)
srcsetLineWebp(opts, s, i) ==
  replace(replace(replace(lineText(srcsetLine(opts, s, i)),
                          Chars_jpg, <<"w", "e", "b", "p">>),
                  Chars_png, <<"w", "e", "b", "p">>),
          Chars_jpeg, <<"w", "e", "b", "p">>)

\* Array.prototype.join(): the texts separated by ","
RECURSIVE join(_)
join(texts) ==
  IF texts = <<>> THEN <<>>
  ELSE IF Len(texts) = 1 THEN texts[1]
  ELSE texts[1] \o <<",">> \o join(Tail(texts))

\* getSrcset(sizes): ` srcset='<lines>' `
getSrcset(opts, sizes) ==
  LET lines == getSrcsetLines(opts, sizes)
  IN  <<" ", "srcset=", "'">> \o join([j \in 1..Len(lines) |-> lineText(lines[j])])
        \o <<"'", " ">>

\* getSrcset(sizes, srcsetLineWebp, "srcsetWebp")
getSrcsetWebp(opts, sizes) ==
  LET s == filterBoolean(sizes)
  IN  <<" ", "srcsetWebp=", "'">>
        \o join([j \in 1..Len(s) |-> srcsetLineWebp(opts, s[j], j - 1)])
        \o <<"'", " ">>

\* ` ratio='${(1 / (sizes[0].width / sizes[0].height)) * 100}%' `, the
\* percentage cut to its integer part
ratioText(sizes) ==
  <<" ", "ratio=", "'", ToString((100 * sizes[1].height) \div sizes[1].width), "%", "'", " ">>

\* ------------------------------------------------------ the orchestrator
\* A seeded slip: a file of exactly inlineBelow bytes is inlined too.
inlines_AtThreshold(opts, size) == opts.inlineBelow # 0 /\ size <= opts.inlineBelow

\* optimize: `options.inlineBelow && size < options.inlineBelow`
inlines(opts, size) == opts.inlineBelow # 0 /\ size < opts.inlineBelow

\* optimize(paths): [threw, outUri, disk, wrote]; backendOk tells whether the
\* image backend (sharp) succeeds on this file
optimize(paths, opts, d, backendOk) ==
  IF inlines(opts, d.size)
  THEN [threw |-> ~backendOk, outUri |-> InlineDataUri, disk |-> d, wrote |-> <<>>]
  ELSE LET made == [d EXCEPT !.outDir = TRUE]    \* ensureOutDirExists
       IN  IF backendOk
           THEN [threw  |-> FALSE,
                 outUri |-> paths.outUrl,
                 disk   |-> [made EXCEPT !.files = writeFile(@, paths.outPath, "optimized")],
                 wrote  |-> <<[path |-> paths.outPath, kind |-> "optimized"]>>]
           ELSE [threw |-> TRUE, outUri |-> <<>>, disk |-> made, wrote |-> <<>>]

\* new RegExp(`${sourceDir}[^node_modules]*`).test(parentDir)
inSourceTree(parentDir) == parentDir \in {SourceDir, ParentDir}

\* A seeded slip: a text that fails to parse still yields the nodes read.
parse_KeepsNodesOnError(doc) == [defined |-> TRUE, nodes |-> doc.nodes]

\* try { ast = svelte.parse(content) } catch (e) { console.error(...) }: ast
\* stays undefined when the parser throws
parse(doc) ==
  [defined |-> doc.parses, nodes |-> IF doc.parses THEN doc.nodes ELSE <<>>]

\* svelte.walk(ast, {enter}): the nodes pushed to imageNodes; walking an
\* undefined ast enters nothing
walk(ast, opts) ==
  IF ~ast.defined THEN <<>>
  ELSE SelectSeq(ast.nodes,
                 LAMBDA node : (opts.optimizeAll /\ node.name = "img")
                                 \/ node.name = opts.tagName)

IdleCall ==
  [phase |-> "idle", by |-> 0, doc |-> 0, source |-> <<>>, parentDir |-> "",
   imageNodes |-> <<>>, idx |-> 1, content |-> <<>>, offset |-> 0,
   edits |-> <<>>, steps |-> <<>>, used |-> {}, result |-> <<>>]

\* The source files on disk before the first rewrite
File(dir, name) == [path |-> resolve(dir, name), kind |-> "source"]
Name_a_png == <<"a", ".", "p", "n", "g">>
Name_b_jpg == <<"b", ".", "j", "p", "g">>
Name_a_gif == <<"a", ".", "g", "i", "f">>
Url_c_png == <<"/", "/", "h", "/", "c", ".", "p", "n", "g">>
Cached_c_png ==
  [path |-> resolve(SourceDir, sha1(Url_c_png) \o <<".", "p", "n", "g">>),
   kind |-> "download"]
InParentDir == {File(ParentDir, Name_a_png), File(ParentDir, Name_b_jpg),
                File(ParentDir, Name_a_gif)}
InSourceDir == {File(SourceDir, Name_a_png), File(SourceDir, Name_b_jpg)}
Disk(files, outDir, size, width) ==
  [files |-> files, outDir |-> outDir, size |-> size,
   meta |-> [width |-> width, height |-> 500]]

\* The disks a rewrite starts on: the images beside the component or under
\* the source directory, small or large, narrow or wide, the output
\* directory present or not, an image missing, a download already cached
DiskChoices ==
  { Disk(InParentDir, TRUE, 9999, 1000),
    Disk(InParentDir, TRUE, 10000, 1000),
    Disk(InParentDir, TRUE, 10000, 300),
    Disk(InParentDir, FALSE, 10000, 1000),
    Disk(InSourceDir, TRUE, 9999, 1000),
    Disk({File(SourceDir, Name_b_jpg)}, TRUE, 9999, 1000),
    Disk({File(ParentDir, Name_a_png), Cached_c_png}, TRUE, 10000, 1000) }

Init ==
  /\ patch = <<>>
  /\ cs = <<>>
  /\ options = DefaultOptions
  /\ preps = <<>>
  /\ call = IdleCall
  /\ disk \in DiskChoices

\* getPreprocessor(opts): the module's options are replaced by the merge
GetPreprocessor ==
  /\ Len(preps) < MaxPreps
  /\ \E i \in DOMAIN OptsChoices :
       /\ options' = spread(options, OptsChoices[i])
       /\ preps' = Append(preps, options')
  /\ UNCHANGED <<disk, call, notRewrite>>

\* markup({content, filename}) of preprocessor p: replaceImages up to the
\* first await of its reduce, or to its early return
Markup ==
  /\ call.phase = "idle"
  /\ \E p \in DOMAIN preps :
       \E d \in DOMAIN Documents :
         \E parentDir \in {ParentDir, OutsideDir} :
           LET content == Documents[d].content
               started == [IdleCall EXCEPT !.by = p, !.doc = d, !.source = content,
                                           !.parentDir = parentDir, !.content = content,
                                           !.used = {options}]
               imageNodes == walk(parse(Documents[d]), options)
           IN  IF \/ ~inSourceTree(parentDir)
                  \/ /\ ~includes(content, <<"<", "i", "m", "g">>)
                     /\ ~includes(content, <<"<", "I", "m", "a", "g", "e">>)
               THEN call' = [started EXCEPT !.phase = "done", !.result = content]
               ELSE IF Len(imageNodes) = 0
               THEN call' = [started EXCEPT !.phase = "done", !.result = content]
               ELSE call' = [started EXCEPT !.phase = "reducing", !.imageNodes = imageNodes]
  /\ UNCHANGED <<options, preps, disk, notRewrite>>

\* The record of one node's step, kept with the call
Step(kind, outcome, r, offset, value, writes) ==
  [kind |-> kind, outcome |-> outcome, reason |-> r.reason, nodeSrc |-> r.nodeSrc,
   downloaded |-> r.downloaded, offset |-> offset, value |-> value, writes |-> writes,
   opts |-> options, size |-> disk.size]

Edit(start, end) == [start |-> start, end |-> end]

\* replaceInImg(edited, node, parentDir), from its `await edited` to its
\* return or to the exception that leaves it
ReplaceInImg ==
  /\ call.phase = "reducing"
  /\ call.idx <= Len(call.imageNodes)
  /\ call.imageNodes[call.idx].name = "img"
  /\ \E outcome \in DownloadOutcomes :
       \E backendOk \in BOOLEAN :
         LET node == call.imageNodes[call.idx]
             r == getProcessingPathsForNode(node, call.source, call.parentDir,
                                            options, disk.files, outcome)
             next == [call EXCEPT !.idx = @ + 1, !.used = @ \cup {options}]
         IN  IF r.willNotProcess
             THEN /\ call' = [next EXCEPT
                                !.steps = Append(@, Step("img", "skip", r, call.offset,
                                                         <<>>, <<>>))]
                  /\ disk' = [disk EXCEPT !.files = r.files]
             ELSE IF willProcessThrows(disk)
             THEN /\ call' = [next EXCEPT
                                !.phase = "rejected",
                                !.steps = Append(@, Step("img", "threw", r, call.offset,
                                                         <<>>, <<>>))]
                  /\ disk' = [disk EXCEPT !.files = r.files]
             ELSE LET paths == getPathsObject(r.nodeSrc)
                      staged == [disk EXCEPT !.files = willProcess(r.nodeSrc, r.files)]
                      copy == <<[path |-> paths.outPath, kind |-> "copy"]>>
                      o == optimize(paths, options, staged, backendOk)
                      e == insert(call.content, o.outUri, node.src.start, node.src.end,
                                  call.offset)
                  IN  IF o.threw
                      THEN /\ call' = [next EXCEPT
                                         !.steps = Append(@, Step("img", "caught", r,
                                                                  call.offset, <<>>, copy))]
                           /\ disk' = o.disk
                      ELSE /\ call' = [next EXCEPT
                                         !.content = e.content,
                                         !.offset = e.offset,
                                         !.edits = Append(@, Edit(node.src.start,
                                                                  node.src.end)),
                                         !.steps = Append(@, Step("img", "replaced", r,
                                                                  call.offset, o.outUri,
                                                                  copy \o o.wrote))]
                           /\ disk' = o.disk
  /\ UNCHANGED <<options, preps, notRewrite>>

\* The set of files as the sequence of writes that made it (any order)
RECURSIVE asWrites(_)
asWrites(written) ==
  IF written = {} THEN <<>>
  ELSE LET f == CHOOSE f \in written : TRUE
       IN  <<f>> \o asWrites(written \ {f})

\* replaceInComponent(edited, node, parentDir), from its `await edited` to
\* its return or to the exception that leaves it
ReplaceInComponent ==
  /\ call.phase = "reducing"
  /\ call.idx <= Len(call.imageNodes)
  /\ call.imageNodes[call.idx].name # "img"
  /\ \E outcome \in DownloadOutcomes :
       \E backendOk \in BOOLEAN :
         LET node == call.imageNodes[call.idx]
             r == getProcessingPathsForNode(node, call.source, call.parentDir,
                                            options, disk.files, outcome)
             next == [call EXCEPT !.idx = @ + 1, !.used = @ \cup {options}]
         IN  IF r.willNotProcess
             THEN /\ call' = [next EXCEPT
                                !.steps = Append(@, Step("component", "skip", r,
                                                         call.offset, <<>>, <<>>))]
                  /\ disk' = [disk EXCEPT !.files = r.files]
             ELSE IF willProcessThrows(disk)
             THEN /\ call' = [next EXCEPT
                                !.phase = "rejected",
                                !.steps = Append(@, Step("component", "threw", r,
                                                         call.offset, <<>>, <<>>))]
                  /\ disk' = [disk EXCEPT !.files = r.files]
             ELSE LET paths == getPathsObject(r.nodeSrc)
                      staged == willProcess(r.nodeSrc, r.files)
                      copy == <<[path |-> paths.outPath, kind |-> "copy"]>>
                  IN  IF ~backendOk
                      \* createSizes, getBase64 or getTrace throws: nothing catches
                      THEN /\ call' = [next EXCEPT
                                         !.phase = "rejected",
                                         !.steps = Append(@, Step("component", "threw", r,
                                                                  call.offset, <<>>, copy))]
                           /\ disk' = [disk EXCEPT !.files = staged]
                      ELSE LET sizes == createSizes(options, paths, disk.meta, staged)
                               written == createSizesWrites(
                                            candidateSizes(options, disk.meta), paths,
                                            disk.meta, options, staged)
                               base64 == IF options.placeholder = "blur"
                                         THEN BlurPlaceholder ELSE TracePlaceholder
                               start == node.src.start
                               end == node.src.end
                               withBase64 == insert(call.content, base64, start, end,
                                                    call.offset)
                               withSrcset == insert(withBase64.content,
                                                    getSrcset(options, sizes),
                                                    end + 1, end + 2, withBase64.offset)
                               withRatio == insert(withSrcset.content, ratioText(sizes),
                                                   end + 1, end + 2, withSrcset.offset)
                               withWebp == insert(withRatio.content,
                                                  getSrcsetWebp(options, sizes),
                                                  end + 1, end + 2, withRatio.offset)
                               last == IF ~options.webp THEN withRatio ELSE withWebp
                               made == <<Edit(start, end), Edit(end + 1, end + 2),
                                         Edit(end + 1, end + 2)>>
                                         \o (IF ~options.webp THEN <<>>
                                             ELSE <<Edit(end + 1, end + 2)>>)
                           IN  /\ call' = [next EXCEPT
                                             !.content = last.content,
                                             !.offset = last.offset,
                                             !.edits = @ \o made,
                                             !.steps = Append(@,
                                                Step("component", "replaced", r,
                                                     call.offset, base64,
                                                     copy \o asWrites(written)))]
                               /\ disk' = [disk EXCEPT !.files = staged \cup written,
                                                       !.outDir = TRUE]
  /\ UNCHANGED <<options, preps, notRewrite>>

\* The reduce is through: replaceImages returns processed.content
Return ==
  /\ call.phase = "reducing"
  /\ call.idx > Len(call.imageNodes)
  /\ call' = [call EXCEPT !.phase = "done", !.result = call.content]
  /\ UNCHANGED <<options, preps, disk, notRewrite>>

Next ==
  \/ GetPreprocessor
  \/ Markup
  \/ ReplaceInImg
  \/ ReplaceInComponent
  \/ Return

Spec == Init /\ [][Next]_vars

\* ------------------------------------------------------------------- C1
RECURSIVE SumDelta(_)
SumDelta(edits) ==
  IF edits = <<>> THEN 0
  ELSE LET e == edits[Len(edits)]
       IN  SumDelta(SubSeq(edits, 1, Len(edits) - 1)) + Len(e.value) - (e.end - e.start)

\* The original text with every edited range replaced by its value, built
\* left to right from the ORIGINAL positions only.
RECURSIVE Spliced(_, _, _)
Spliced(orig, edits, i) ==
  LET from == IF i = 1 THEN 0 ELSE edits[i - 1].end
  IN  IF i > Len(edits)
      THEN SubSeq(orig, from + 1, Len(orig))
      ELSE SubSeq(orig, from + 1, edits[i].start) \o edits[i].value
             \o Spliced(orig, edits, i + 1)

\* C1: sorted, non-overlapping, in-range edits applied one after another
\* through insert with the returned offset threaded (from 0) give a text of
\* length originalLength + sum(len(replacement_i) - (end_i - start_i)) in
\* which every original substring outside the edited ranges is unchanged
\* and in the original order.
C1_InsertSplices ==
  /\ Len(patch.content) = Len(patch.orig) + SumDelta(patch.edits)
  /\ patch.offset = SumDelta(patch.edits)
  /\ patch.content = Spliced(patch.orig, patch.edits, 1)

\* Two edits, the first changing the length, with original text kept before,
\* between and after them.
C1_Witness ==
  /\ Len(patch.edits) = 2
  /\ patch.edits[1].start > 0
  /\ Len(patch.edits[1].value) # patch.edits[1].end - patch.edits[1].start
  /\ patch.edits[2].end > patch.edits[2].start
  /\ patch.edits[2].end <= Len(patch.orig)

\* ------------------------------------------------------------------- C5
\* The candidate sizes as the claim states them: the configured sizes, or the
\* natural width alone when every configured size exceeds it.
C5_Candidates ==
  IF \A i \in DOMAIN cs.opts.sizes : cs.opts.sizes[i] > cs.meta.width
  THEN <<cs.meta.width>>
  ELSE cs.opts.sizes

\* C5: createSizes returns exactly one variant per candidate size that does
\* not exceed the natural width and none for a larger one, in the candidates'
\* configured order whatever the order in which the resize tasks complete,
\* and never an empty list.
C5_NoUpscaleInConfiguredOrder ==
  cs.phase \in {"returned", "formatted"} =>
    /\ [j \in 1..Len(cs.result) |-> cs.result[j].size]
         = SelectSeq(C5_Candidates, LAMBDA size : size <= cs.meta.width)
    /\ \A j \in 1..Len(cs.result) : cs.result[j].size <= cs.meta.width
    /\ cs.result # <<>>

\* Three configured sizes, the largest dropped, the task of the second size
\* finishing before the task of the first.
C5_Witness ==
  /\ cs.phase = "returned"
  /\ cs.opts.sizes = <<400, 1200, 800>>
  /\ cs.meta.width = 1000
  /\ cs.order = <<3, 1>>
  /\ Len(cs.result) = 2

\* The fallback: the smallest configured size exceeds the natural width.
C5_WitnessFallback ==
  /\ cs.phase = "returned"
  /\ cs.opts.sizes = <<400, 800>>
  /\ cs.meta.width = 300
  /\ Len(cs.result) = 1
  /\ cs.result[1].size = 300

\* ------------------------------------------------------------------- C6
\* The 1-based indices of the candidates whose variant was kept, in order.
RECURSIVE C6_KeptIndices(_, _)
C6_KeptIndices(settled, k) ==
  IF k > Len(settled) THEN <<>>
  ELSE (IF settled[k].isNull THEN <<>> ELSE <<k>>) \o C6_KeptIndices(settled, k + 1)

\* C6: in the srcset, the variant of the configured size sizes[k] is listed
\* with breakpoints[k], the breakpoint configured at the same index, in
\* configured order, for every sizes list (ascending or not) and every
\* natural width.
C6_BreakpointOfSameIndex ==
  (cs.phase = "formatted" /\ cs.cand = cs.opts.sizes) =>
    LET kept == C6_KeptIndices(cs.settled, 1)
    IN  /\ Len(cs.srcset) = Len(kept)
        /\ \A j \in 1..Len(kept) :
             /\ cs.srcset[j].url = getResizePaths(FujiPaths, cs.opts.sizes[kept[j]]).outUrl
             /\ cs.srcset[j].breakpoint = cs.opts.breakpoints[kept[j]]

\* ------------------------------------------------------------------- C2
\* The text now standing where the original range [from, to) stood when the
\* node of a step was reached
C_Now(step, from, to) ==
  SubSeq(call.content, from + step.offset + 1, to + step.offset)

C2_SkipReasons == {"dynamic", "blank", "extension", "external", "does not exist"}

\* C2: a node whose resolution ends in Skip contributes no edit, so its
\* original markup stands unmodified in the output and the src value of
\* every node replaced after it stands where the offset puts it.
C2_SkippedNodeUntouched ==
  \A i \in DOMAIN call.steps :
    LET step == call.steps[i]
        node == call.imageNodes[i]
    IN  /\ (step.outcome = "skip" /\ step.reason \in C2_SkipReasons) =>
             C_Now(step, node.start, node.end)
               = SubSeq(call.source, node.start + 1, node.end)
        /\ (step.outcome = "replaced" /\ \E j \in 1..(i - 1) : call.steps[j].outcome = "skip") =>
             C_Now(step, node.src.start, node.src.start + Len(step.value)) = step.value

\* The part of C2 that holds: the step of a skipped node returns the content
\* and the offset it received and hands no edit to insert.
C2_SkipReturnsWhatItReceived ==
  [][(call.phase = "reducing" /\ call'.phase = "reducing"
        /\ Len(call'.steps) = Len(call.steps) + 1
        /\ call'.steps[Len(call'.steps)].outcome = "skip")
       => (call'.content = call.content /\ call'.offset = call.offset
             /\ call'.edits = call.edits)]_vars

\* ------------------------------------------------------------------- C3
\* C3: a failure while one node is processed never aborts the rewrite:
\* replaceImages returns a text, it does not reject.
C3_NodeFailureNeverRejects == call.phase # "rejected"

\* ------------------------------------------------------------------- C4
\* C4: when the document fails to parse, replaceImages returns the source
\* text unchanged: no rejection, no edit, no partially edited text.
C4_ParseFailureReturnsSource ==
  (call.phase # "idle" /\ ~Documents[call.doc].parses) =>
    /\ call.phase = "done"
    /\ call.result = call.source
    /\ call.content = call.source
    /\ call.edits = <<>>

\* The parser was reached (the text holds "<img" and lies in the source
\* tree) and threw, on a disk where the image could have been rewritten.
C4_Witness ==
  /\ call.phase = "done"
  /\ ~Documents[call.doc].parses
  /\ call.parentDir = ParentDir
  /\ includes(call.source, <<"<", "i", "m", "g">>)
  /\ options.optimizeAll
  /\ disk.outDir
  /\ existsSync(disk.files, resolve(ParentDir, Name_a_png))

\* ------------------------------------------------------------------- C7
C7_OutFile(step) == getPathsObject(step.nodeSrc).outPath
C7_Small(step) == step.opts.inlineBelow # 0 /\ step.size < step.opts.inlineBelow
C7_Replaced(i) == call.steps[i].kind = "img" /\ call.steps[i].outcome = "replaced"

\* C7 as stated: below a non-zero inlineBelow the src value becomes a data
\* URI and no output file is written for the image; at or above it exactly
\* one optimized file is written at <outputDir>/<base><ext> and the src
\* value becomes its URL.
C7_InlineWritesNoFile ==
  \A i \in DOMAIN call.steps :
    C7_Replaced(i) =>
      LET step == call.steps[i]
          node == call.imageNodes[i]
          now == C_Now(step, node.src.start, node.src.start + Len(step.value))
      IN  IF C7_Small(step)
          THEN now = InlineDataUri /\ step.writes = <<>>
          ELSE /\ now = OutputDir \o basename(step.nodeSrc.rel)
               /\ Len(SelectSeq(step.writes, LAMBDA w : w.kind = "optimized")) = 1
               /\ \A k \in DOMAIN step.writes : step.writes[k].path = C7_OutFile(step)

\* C7 amended: below a non-zero inlineBelow the src value becomes a data URI
\* and no optimized file is written, the only file written being the
\* unoptimized copy willProcess stages at <outputDir>/<base><ext>; at or
\* above it that staged copy is overwritten by the one optimized file and
\* the src value becomes its URL.
C7_InlineWritesOnlyStagedCopy ==
  \A i \in DOMAIN call.steps :
    C7_Replaced(i) =>
      LET step == call.steps[i]
          node == call.imageNodes[i]
          now == C_Now(step, node.src.start, node.src.start + Len(step.value))
          copy == [path |-> C7_OutFile(step), kind |-> "copy"]
          optimized == [path |-> C7_OutFile(step), kind |-> "optimized"]
      IN  IF C7_Small(step)
          THEN now = InlineDataUri /\ step.writes = <<copy>>
          ELSE /\ now = OutputDir \o basename(step.nodeSrc.rel)
               /\ step.writes = <<copy, optimized>>

\* An img node of 9999 bytes under inlineBelow 10000 was inlined.
C7_Witness ==
  \E i \in DOMAIN call.steps :
    /\ C7_Replaced(i)
    /\ C7_Small(call.steps[i])
    /\ call.steps[i].size = 9999
    /\ call.steps[i].value = InlineDataUri

\* ------------------------------------------------------------------- C8
\* C8: an external src with optimizeRemote enabled whose download yields a
\* local file (fetched or cached) is resolved to Process with that file as
\* the input path.
C8_DownloadedFileIsProcessed ==
  \A i \in DOMAIN call.steps :
    call.steps[i].downloaded # <<>> =>
      /\ call.steps[i].outcome # "skip"
      /\ call.steps[i].nodeSrc = resolve(SourceDir, call.steps[i].downloaded)

\* ------------------------------------------------------------------- C9
\* C9: every markup call of a preprocessor reads the options the
\* preprocessor was constructed with, whatever is constructed later.
C9_UsesConstructionOptions ==
  call.phase # "idle" => \A o \in call.used : o = preps[call.by]

\* ------------------------------------------------------------------ C10
\* C10: the edits handed to insert during one rewrite are strictly ascending
\* by start and pairwise disjoint in original coordinates, and each lies
\* within the literal src value [start, end) of a node.
C10_EditsAscendingDisjoint ==
  /\ \A i, j \in DOMAIN call.edits :
       i < j => /\ call.edits[i].start < call.edits[j].start
                /\ call.edits[i].end <= call.edits[j].start
  /\ \A i \in DOMAIN call.edits :
       \E k \in DOMAIN call.imageNodes :
         /\ call.imageNodes[k].src.start <= call.edits[i].start
         /\ call.edits[i].end <= call.imageNodes[k].src.end

\* ------------------------------------------------ the alternate-format list
\* File names a component's src may hold: plain ones, upper-case extensions,
\* names with "jpg", "png" or "jpeg" in the base name, and one the extension
\* gate of an img rejects
Name_fuji_jpg == <<"f", "u", "j", "i", ".", "j", "p", "g">>
Name_fuji_png == <<"f", "u", "j", "i", ".", "p", "n", "g">>
Name_fuji_jpeg == <<"f", "u", "j", "i", ".", "j", "p", "e", "g">>
Name_fuji_PNG == <<"f", "u", "j", "i", ".", "P", "N", "G">>
Name_fuji_JPG == <<"f", "u", "j", "i", ".", "J", "P", "G">>
Name_jpg_a_png == <<"j", "p", "g", "-", "a", ".", "p", "n", "g">>
Name_png_jpg == <<"p", "n", "g", ".", "j", "p", "g">>
Name_a_jpg_png == <<"a", ".", "j", "p", "g", ".", "p", "n", "g">>
Name_jpeg_jpeg == <<"j", "p", "e", "g", ".", "j", "p", "e", "g">>
Name_fuji_gif == <<"f", "u", "j", "i", ".", "g", "i", "f">>
ImageNames ==
  {Name_fuji_jpg,
   Name_fuji_png,
   Name_fuji_jpeg,
   Name_fuji_PNG,
   Name_fuji_JPG,
   Name_jpg_a_png,
   Name_png_jpg,
   Name_a_jpg_png,
   Name_jpeg_jpeg,
   Name_fuji_gif}

\* The names fileHasCorrectExtension accepts with the default imgTagExtensions
\* (the empty componentExtensions accept every name)
AcceptedNames ==
  {n \in ImageNames : fileHasCorrectExtension(n, DefaultOptions.imgTagExtensions)
                        /\ fileHasCorrectExtension(n, DefaultOptions.componentExtensions)}

\* getPathsObject of a file of the source directory
PathsOf(name) == getPathsObject(resolve(SourceDir, name))

\* getSrcset(sizes, srcsetLineWebp, ...): sizes.filter((f) => f).map(lineFn(options)),
\* each entry as text
getSrcsetWebpLines(opts, sizes) ==
  LET s == filterBoolean(sizes)
  IN  [j \in 1..Len(s) |-> srcsetLineWebp(opts, s[j], j - 1)]

\* replaceInComponent on one accepted file with options.webp on: the sizes
\* are created, then both lists are formatted
WebpInit ==
  /\ patch = <<>>
  /\ options = <<>> /\ preps = <<>> /\ disk = <<>> /\ call = <<>>
  /\ \E name \in AcceptedNames :
       \E sizes \in SeqsUpTo(SizeValues, MaxSizes) :
         \E w \in Widths :
           cs = [opts       |-> [sizes |-> sizes,
                                 breakpoints |-> BreakpointsFor(Len(sizes)),
                                 webp |-> TRUE],
                 name       |-> name,
                 meta       |-> [width |-> w, height |-> 500],
                 phase      |-> "called",
                 disk       |-> {},
                 result     |-> <<>>,
                 srcset     |-> <<>>,
                 srcsetWebp |-> <<>>]

\* const sizes = await createSizes(paths)
WebpCreateSizes ==
  /\ UNCHANGED notSizes
  /\ cs.phase = "called"
  /\ cs' = [cs EXCEPT
              !.phase = "returned",
              !.result = createSizes(cs.opts, PathsOf(cs.name), cs.meta, cs.disk),
              !.disk = @ \cup createSizesWrites(candidateSizes(cs.opts, cs.meta),
                                                PathsOf(cs.name), cs.meta, cs.opts, @)]

\* getSrcset(sizes) and getSrcset(sizes, srcsetLineWebp, "srcsetWebp")
WebpFormat ==
  /\ UNCHANGED notSizes
  /\ cs.phase = "returned"
  /\ cs' = [cs EXCEPT
              !.phase = "formatted",
              !.srcset = getSrcsetLines(cs.opts, cs.result),
              !.srcsetWebp = getSrcsetWebpLines(cs.opts, cs.result)]

WebpNext ==
  \/ WebpCreateSizes
  \/ WebpFormat

SpecWebp == WebpInit /\ [][WebpNext]_vars

\* ------------------------------------------------------------------ C11
\* A URL with only its trailing file extension rewritten to webp
C11_WithWebpExtension(url) ==
  SubSeq(url, 1, Len(url) - Len(extname(url))) \o <<".", "w", "e", "b", "p">>

\* Entry j of srcsetWebp is entry j of srcset with only its trailing
\* extension rewritten, and names the webp file generated for that size
C11_EntryIsRewrittenExtension(j) ==
  LET line == cs.srcset[j]
      url == C11_WithWebpExtension(line.url)
  IN  /\ cs.srcsetWebp[j] = lineText([url |-> url, breakpoint |-> line.breakpoint])
      /\ \E f \in cs.disk : f.kind = "webp" /\ OutputDir \o f.path.rel = url

\* C11: every entry of srcsetWebp equals the corresponding srcset entry with
\* only its trailing file extension rewritten to webp, so that it names the
\* file <base>-<size>.webp generated for that size, for every file name the
\* extension gate accepts.
C11_WebpEntryRewritesOnlyExtension ==
  cs.phase = "formatted" =>
    \A j \in DOMAIN cs.srcsetWebp : C11_EntryIsRewrittenExtension(j)

\* A name whose extension is lower-case and whose base name holds none of
\* "jpg", "png", "jpeg"
C11_PlainName(name) ==
  /\ extname(name) = toLowerCase(extname(name))
  /\ \A w \in {Chars_jpg, Chars_png, Chars_jpeg} : ~includes(getBasename(name), w)

\* The part of C11 that holds: for plain names the entries of srcsetWebp are
\* the srcset entries with the trailing extension rewritten.
C11_PlainNamesRewriteOnlyExtension ==
  (cs.phase = "formatted" /\ C11_PlainName(cs.name)) =>
    \A j \in DOMAIN cs.srcsetWebp : C11_EntryIsRewrittenExtension(j)

\* A plain name with at least one entry has been formatted
C11_PlainFormatted ==
  cs.phase = "formatted" /\ C11_PlainName(cs.name) /\ cs.srcsetWebp # <<>>
====
